---- MODULE Spec2Model ----
(***************************************************************************)
(* Model of face_recognition_app (src/app.py): the model-lifecycle cache   *)
(* (model_cache, cache_lock, load_models, get_detector/get_embedder/       *)
(* get_database), the request handler reconocer and the nearest-neighbour  *)
(* rule of reconocer_persona.                                              *)
(*                                                                         *)
(* Six specifications share the variables:                                 *)
(*   Spec          the background warm-up thread racing with request       *)
(*                 threads that run reconocer;                             *)
(*   SpecMatch     the matching loop of reconocer_persona on one probe;    *)
(*   SpecRecognize reconocer on one image, from decoding to the answer;    *)
(*   SpecClip      the same steps on one detection with any box;           *)
(*   SpecStatus    status requests racing with the warm-up thread and one  *)
(*                 request thread;                                         *)
(*   FairSpec      the warm-up thread and two request threads under fair   *)
(*                 scheduling.                                             *)
(***************************************************************************)
EXTENDS Integers, Sequences, FiniteSets, TLC

\* ------------------------------------------------------------------ bounds

\* Number of request threads running reconocer concurrently.
NumRequests == 2

\* ------------------------------------------------------------------ cache

VARIABLES
    model_cache,     \* slot -> None or the instance stored in it
    cache_lock,      \* Free or the thread holding the lock
    models_loaded,   \* the module-level flag
    pc,              \* thread -> position in its code
    local,           \* request thread -> the values get_* returned to it,
                     \*   None again once the handler has returned
    outcome,         \* request thread -> how its request ended: the HTTP
                     \*   status and what the error text names
    inits,           \* slot -> number of instances its initializer has built
    init_failed,     \* whether some initializer has raised
    unset_at_call,   \* request thread -> the detector slot was None when reconocer was called
    data             \* load_models' local: the mapping it unpickled, None before

cacheVars == <<model_cache, cache_lock, models_loaded, pc, local, outcome,
               inits, init_failed, unset_at_call, data>>

VARIABLES
    embedding,            \* the probe: embedder.embeddings([face_resized])[0]
    base_datos,           \* the store: a sequence of [nombre, emb_list] in dict order
    umbral,               \* the threshold parameter
    k,                    \* number of reference embeddings the loops have visited
    nombre_identificado,
    distancia_minima,
    mpc                   \* position in reconocer_persona's matching code

matchVars == <<embedding, base_datos, umbral, k, nombre_identificado,
               distancia_minima, mpc>>

VARIABLES
    imagen,        \* what the request's payload decodes to (np.array(img))
    detector_out,  \* what detector.detect_faces answers for that image
    embedder_out,  \* what embedder.embeddings answers for the i-th crop
    arr,           \* reconocer's locals, lines 133-154 ...
    detecciones,
    idx,           \* number of detections the for loop has finished
    x, y, w, h, x2, y2,
    face_img,
    resultados,
    embed_calls,   \* the detections whose crop was passed to embedder.embeddings
    respuesta,     \* the answer of the request, once given
    rpc            \* position in reconocer after the models were obtained

recVars == <<imagen, detector_out, embedder_out, arr, detecciones, idx,
             x, y, w, h, x2, y2, face_img, resultados, embed_calls,
             respuesta, rpc>>

VARIABLES
    spc,           \* position of the status request in lines 95-101
    report,        \* the fields of its answer evaluated so far
    held_at_read   \* whether cache_lock was held while a field was evaluated

statusVars == <<spc, report, held_at_read>>

\* What the steps of the cache and of the request threads leave alone.
CacheFrame == UNCHANGED <<matchVars, recVars, statusVars>>

\* What the steps of the matching loop leave alone.
MatchFrame == UNCHANGED <<cacheVars, recVars, statusVars>>

\* What the steps of reconocer on one image leave alone.
RecFrame == UNCHANGED <<cacheVars, matchVars, statusVars>>

\* What the steps of status leave alone.
StatusFrame == UNCHANGED <<cacheVars, matchVars, recVars>>

\* model_cache holds None until an initializer stores an instance.  Instances
\* of one slot are told apart by the ordinal of the initializer run that built
\* them (1, 2, ...).
None == 0

\* cache_lock is not held.
Free == -1

\* The thread started at import time to run load_models.
BG == 0

Requests == 1..NumRequests

Threads == {BG} \cup Requests

Slots == {"detector", "embedder", "database"}

\* ---- request threads: get_detector / get_embedder / get_database ----------

\* Position of a thread waiting to enter `with cache_lock:` of get_<s>.
Wait(s) == "get_" \o s

\* Position of a thread inside the `with cache_lock:` block of get_<s>.
Crit(s) == "get_" \o s \o "_locked"

\* Where reconocer continues after get_<s> returns (lines 109-113).
After(s) ==
    CASE s = "detector" -> Wait("embedder")
      [] s = "embedder" -> Wait("database")
      [] s = "database" -> "check"

\* reconocer's locals before the get_* calls and after it has returned.
NoLocals == [s \in Slots |-> None]

\* No answer yet.
Pending == [status |-> 0, error |-> ""]

\* Lines 158-160: the generic failure answer, 500 with the text of the
\* exception (here: which call raised).
Failure(what) == [status |-> 500, error |-> what]

\* Lines 114-122: the 503 answer.
NotReady == [status |-> 503, error |-> "Models not ready yet"]

\* Line 156: the answer with the result list.
Success == [status |-> 200, error |-> ""]

\* reconocer is entered and calls get_detector.
reconocer_call(t) ==
    /\ CacheFrame
    /\ pc[t] = "idle"
    /\ pc' = [pc EXCEPT ![t] = Wait("detector")]
    /\ unset_at_call' = [unset_at_call EXCEPT
                            ![t] = (model_cache["detector"] = None)]
    /\ UNCHANGED <<model_cache, cache_lock, models_loaded, local, outcome,
                   inits, init_failed, data>>

\* `with cache_lock:` -- blocks until the lock is free, then takes it.
ensure_acquire(t, s) ==
    /\ CacheFrame
    /\ pc[t] = Wait(s)
    /\ cache_lock = Free
    /\ cache_lock' = t
    /\ pc' = [pc EXCEPT ![t] = Crit(s)]
    /\ UNCHANGED <<model_cache, models_loaded, local, outcome, inits,
                   init_failed, unset_at_call, data>>

\* A variant of ensure_return that keeps the lock after get_<s> has returned.
ensure_return_held(t, s, v) ==
    /\ local' = [local EXCEPT ![t][s] = v]
    /\ cache_lock' = cache_lock
    /\ pc' = [pc EXCEPT ![t] = After(s)]
    /\ UNCHANGED <<models_loaded, outcome, init_failed, unset_at_call, data>>

\* get_<s> returns value v to reconocer, the lock being released on the way
\* out of the with block; reconocer goes on to its next statement.
ensure_return(t, s, v) ==
    /\ local' = [local EXCEPT ![t][s] = v]
    /\ cache_lock' = Free
    /\ pc' = [pc EXCEPT ![t] = After(s)]
    /\ UNCHANGED <<models_loaded, outcome, init_failed, unset_at_call, data>>

\* The slot is set: the stored instance is returned, nothing is initialized.
ensure_hit(t, s) ==
    /\ CacheFrame
    /\ pc[t] = Crit(s)
    /\ model_cache[s] # None
    /\ UNCHANGED <<model_cache, inits, data>>
    /\ ensure_return(t, s, model_cache[s])

\* The slot is None: the initializer runs, its result is stored and returned.
ensure_init(t, s) ==
    /\ CacheFrame
    /\ pc[t] = Crit(s)
    /\ model_cache[s] = None
    /\ inits' = [inits EXCEPT ![s] = @ + 1]
    /\ model_cache' = [model_cache EXCEPT ![s] = inits[s] + 1]
    /\ ensure_return(t, s, inits[s] + 1)

\* A variant of ensure_raise that remembers the failure in the slot.
ensure_raise_cached(t, s) ==
    /\ CacheFrame
    /\ pc[t] = Crit(s)
    /\ model_cache[s] = None
    /\ init_failed' = TRUE
    /\ model_cache' = [model_cache EXCEPT ![s] = -2]
    /\ cache_lock' = Free
    /\ outcome' = [outcome EXCEPT ![t] = Failure(s)]
    /\ local' = [local EXCEPT ![t] = NoLocals]
    /\ pc' = [pc EXCEPT ![t] = "done"]
    /\ UNCHANGED <<models_loaded, inits, unset_at_call, data>>

\* A variant of ensure_raise whose lock stays held when the initializer
\* raises.
ensure_raise_locked(t, s) ==
    /\ CacheFrame
    /\ pc[t] = Crit(s)
    /\ model_cache[s] = None
    /\ init_failed' = TRUE
    /\ cache_lock' = cache_lock
    /\ outcome' = [outcome EXCEPT ![t] = Failure(s)]
    /\ local' = [local EXCEPT ![t] = NoLocals]
    /\ pc' = [pc EXCEPT ![t] = "done"]
    /\ UNCHANGED <<model_cache, models_loaded, inits, unset_at_call, data>>

\* The slot is None and the initializer raises: the with block releases the
\* lock, nothing is stored, and the exception reaches reconocer's handler
\* (lines 158-160), which answers 500.
ensure_raise(t, s) ==
    /\ CacheFrame
    /\ pc[t] = Crit(s)
    /\ model_cache[s] = None
    /\ init_failed' = TRUE
    /\ cache_lock' = Free
    /\ outcome' = [outcome EXCEPT ![t] = Failure(s)]
    /\ local' = [local EXCEPT ![t] = NoLocals]
    /\ pc' = [pc EXCEPT ![t] = "done"]
    /\ UNCHANGED <<model_cache, models_loaded, inits, unset_at_call, data>>

ensure(t, s) ==
    \/ ensure_acquire(t, s)
    \/ ensure_hit(t, s)
    \/ ensure_init(t, s)
    \/ ensure_raise(t, s)

get_embedder(t) == ensure(t, "embedder")

get_detector(t) == ensure(t, "detector")

get_database(t) == ensure(t, "database")

\* `if None in (detector, embedder, base_datos)`: the 503 answer, else on to
\* reading the image.
reconocer_check(t) ==
    /\ CacheFrame
    /\ pc[t] = "check"
    /\ IF \E s \in Slots : local[t][s] = None
       THEN /\ outcome' = [outcome EXCEPT ![t] = NotReady]
            /\ local' = [local EXCEPT ![t] = NoLocals]
            /\ pc' = [pc EXCEPT ![t] = "done"]
       ELSE /\ pc' = [pc EXCEPT ![t] = "infer"]
            /\ UNCHANGED <<outcome, local>>
    /\ UNCHANGED <<model_cache, cache_lock, models_loaded, inits,
                   init_failed, unset_at_call, data>>

\* Lines 124-156: the image is read and decoded, the detector runs and each
\* face is matched; these steps touch only the thread's own values
\* (SpecRecognize models them in detail).  The request ends with the result
\* list, or with 500 if decoding or detection raises.
reconocer_infer(t) ==
    /\ CacheFrame
    /\ pc[t] = "infer"
    /\ \E o \in {Success, Failure("image")} :
          outcome' = [outcome EXCEPT ![t] = o]
    /\ local' = [local EXCEPT ![t] = NoLocals]
    /\ pc' = [pc EXCEPT ![t] = "done"]
    /\ UNCHANGED <<model_cache, cache_lock, models_loaded, inits,
                   init_failed, unset_at_call, data>>

reconocer(t) ==
    \/ reconocer_call(t)
    \/ get_detector(t)
    \/ get_embedder(t)
    \/ get_database(t)
    \/ reconocer_check(t)
    \/ reconocer_infer(t)

\* ---- background thread: load_models ----------------------------------------

\* `with cache_lock:` in load_models, before storing slot s.
load_acquire(s) ==
    /\ CacheFrame
    /\ pc[BG] = "load_" \o s
    /\ cache_lock = Free
    /\ cache_lock' = BG
    /\ pc' = [pc EXCEPT ![BG] = "load_" \o s \o "_locked"]
    /\ UNCHANGED <<model_cache, models_loaded, local, outcome, inits,
                   init_failed, unset_at_call, data>>

\* Lines 38-39 and 49-50: inside the lock the model is constructed and
\* assigned to the slot, whatever the slot holds; then the lock is released.
load_construct(s, next) ==
    /\ CacheFrame
    /\ pc[BG] = "load_" \o s \o "_locked"
    /\ inits' = [inits EXCEPT ![s] = @ + 1]
    /\ model_cache' = [model_cache EXCEPT ![s] = inits[s] + 1]
    /\ cache_lock' = Free
    /\ pc' = [pc EXCEPT ![BG] = next]
    /\ UNCHANGED <<models_loaded, local, outcome, init_failed, unset_at_call, data>>

\* Lines 42-43: database.pkl is opened and unpickled, outside the lock.
load_read_database ==
    /\ CacheFrame
    /\ pc[BG] = "load_read_database"
    /\ inits' = [inits EXCEPT !["database"] = @ + 1]
    /\ data' = inits["database"] + 1
    /\ pc' = [pc EXCEPT ![BG] = "load_database"]
    /\ UNCHANGED <<model_cache, cache_lock, models_loaded, local, outcome,
                   init_failed, unset_at_call>>

\* Lines 44-45: inside the lock the loaded mapping is converted and assigned
\* to the slot, whatever the slot holds.
load_store_database ==
    /\ CacheFrame
    /\ pc[BG] = "load_database_locked"
    /\ model_cache' = [model_cache EXCEPT !["database"] = data]
    /\ cache_lock' = Free
    /\ pc' = [pc EXCEPT ![BG] = "load_embedder"]
    /\ UNCHANGED <<models_loaded, local, outcome, inits, init_failed,
                   unset_at_call, data>>

\* Line 52.
load_flag ==
    /\ CacheFrame
    /\ pc[BG] = "load_flag"
    /\ models_loaded' = TRUE
    /\ pc' = [pc EXCEPT ![BG] = "load_done"]
    /\ UNCHANGED <<model_cache, cache_lock, local, outcome, inits,
                   init_failed, unset_at_call, data>>

\* A variant of load_except that sets the flag on the way out.
load_except_flag ==
    /\ CacheFrame
    /\ pc[BG] \in {"load_detector_locked", "load_read_database",
                   "load_database_locked", "load_embedder_locked"}
    /\ init_failed' = TRUE
    /\ models_loaded' = TRUE
    /\ cache_lock' = IF cache_lock = BG THEN Free ELSE cache_lock
    /\ pc' = [pc EXCEPT ![BG] = "load_done"]
    /\ UNCHANGED <<model_cache, local, outcome, inits, unset_at_call, data>>

\* Lines 55-56: an import, a constructor, the file read or the conversion
\* raises; a with block that was entered releases the lock, the error is
\* logged and the thread ends without touching the slot or the flag.
load_except ==
    /\ CacheFrame
    /\ pc[BG] \in {"load_detector_locked", "load_read_database",
                   "load_database_locked", "load_embedder_locked"}
    /\ init_failed' = TRUE
    /\ cache_lock' = IF cache_lock = BG THEN Free ELSE cache_lock
    /\ pc' = [pc EXCEPT ![BG] = "load_done"]
    /\ UNCHANGED <<model_cache, models_loaded, local, outcome, inits,
                   unset_at_call, data>>

load_models ==
    \/ load_acquire("detector")
    \/ load_construct("detector", "load_read_database")
    \/ load_read_database
    \/ load_acquire("database")
    \/ load_store_database
    \/ load_acquire("embedder")
    \/ load_construct("embedder", "load_flag")
    \/ load_flag
    \/ load_except

\* ---- status -----------------------------------------------------------------

\* The fields of the answer in the order the dict display of lines 95-101
\* evaluates them.
Fields == <<"models_loaded", "detector", "embedder", "database">>

\* Where status continues after evaluating field number i.
NextField(i) == IF i < Len(Fields) THEN Fields[i + 1] ELSE "respond"

\* The answer before any field is evaluated.
NoReport == [f \in {Fields[i] : i \in 1..Len(Fields)} |-> FALSE]

\* A request for /status arrives (again).
status_call ==
    /\ StatusFrame
    /\ spc \in {"idle", "done"}
    /\ spc' = Fields[1]
    /\ report' = NoReport
    /\ held_at_read' = FALSE

\* A variant of status_read that evaluates the field inside `with cache_lock:`.
status_read_locked(i) ==
    /\ StatusFrame
    /\ spc = Fields[i]
    /\ cache_lock = Free
    /\ report' = [report EXCEPT ![Fields[i]] =
                     IF i = 1 THEN models_loaded
                     ELSE model_cache[Fields[i]] # None]
    /\ held_at_read' = held_at_read
    /\ spc' = NextField(i)

\* Lines 96-99: one field is evaluated, models_loaded or
\* `model_cache[...] is not None`, without taking cache_lock.
status_read(i) ==
    /\ StatusFrame
    /\ spc = Fields[i]
    /\ report' = [report EXCEPT ![Fields[i]] =
                     IF i = 1 THEN models_loaded
                     ELSE model_cache[Fields[i]] # None]
    /\ held_at_read' = (held_at_read \/ cache_lock # Free)
    /\ spc' = NextField(i)

\* Line 95: jsonify answers the fields.
status_respond ==
    /\ StatusFrame
    /\ spc = "respond"
    /\ spc' = "done"
    /\ UNCHANGED <<report, held_at_read>>

status ==
    \/ status_call
    \/ \E i \in 1..Len(Fields) : status_read(i)
    \/ status_respond

\* No status request yet.
StatusIdle ==
    /\ spc = "idle"
    /\ report = NoReport
    /\ held_at_read = FALSE

\* ------------------------------------------------------------------ match

\* Bounds of the stores the matching loop is run on: number of identities and
\* total number of reference embeddings.
MaxIdentities == 2

MaxRefs == 3

\* float("inf").
Inf == -1

\* The default of the umbral parameter, 0.8; embedding coordinates and
\* distances are counted in tenths.
DefaultUmbral == 8

\* Embedding vectors (two coordinates, in tenths) whose pairwise Euclidean
\* distances are whole: 0, 5, 6, 8 and 10 tenths.
Vectors == {<<0, 0>>, <<3, 4>>, <<6, 8>>, <<0, 8>>}

\* Dict keys in insertion order.
Names == <<"alice", "bob", "carol", "dave">>

\* embedding - emb_base, coordinate by coordinate.
Minus(u, v) == [i \in DOMAIN u |-> u[i] - v[i]]

RECURSIVE SumSq(_, _)
\* Sum of the squares of the first n coordinates of v.
SumSq(v, n) == IF n = 0 THEN 0 ELSE SumSq(v, n - 1) + v[n] * v[n]

\* numpy.linalg.norm of a vector: the square root of the sum of squares
\* (exact on Vectors).
norm(v) == CHOOSE d \in 0..SumSq(v, Len(v)) : d * d = SumSq(v, Len(v))

\* a < b on floats, one of which may be float("inf").
Lt(a, b) == IF a = Inf THEN FALSE ELSE IF b = Inf THEN TRUE ELSE a < b

RECURSIVE Items(_)
\* The (nombre, emb_base) pairs in the order the nested for loops of lines
\* 179-180 visit them: identities in dict order, embeddings in list order.
Items(db) ==
    IF db = <<>> THEN <<>>
    ELSE [i \in 1..Len(Head(db).emb_list) |->
             [nombre |-> Head(db).nombre, emb_base |-> Head(db).emb_list[i]]]
         \o Items(Tail(db))

\* A variant of closest that lets a candidate at an equal distance replace
\* the running best.
closest_le(best, item, emb, tau) ==
    LET d == norm(Minus(emb, item.emb_base))
    IN  IF ~Lt(best.distancia, d) /\ d < tau
        THEN [nombre |-> item.nombre, distancia |-> d]
        ELSE best

\* A variant of closest without the threshold test.
closest_any(best, item, emb, tau) ==
    LET d == norm(Minus(emb, item.emb_base))
    IN  IF Lt(d, best.distancia)
        THEN [nombre |-> item.nombre, distancia |-> d]
        ELSE best

\* A variant of closest that admits a candidate at exactly the threshold.
closest_at(best, item, emb, tau) ==
    LET d == norm(Minus(emb, item.emb_base))
    IN  IF Lt(d, best.distancia) /\ d <= tau
        THEN [nombre |-> item.nombre, distancia |-> d]
        ELSE best

\* Lines 181-184: the running best after one reference embedding.
closest(best, item, emb, tau) ==
    LET d == norm(Minus(emb, item.emb_base))
    IN  IF Lt(d, best.distancia) /\ d < tau
        THEN [nombre |-> item.nombre, distancia |-> d]
        ELSE best

\* Lines 176-177.
match_begin ==
    /\ MatchFrame
    /\ mpc = "begin"
    /\ nombre_identificado' = "Desconocido"
    /\ distancia_minima' = Inf
    /\ k' = 0
    /\ mpc' = "loop"
    /\ UNCHANGED <<embedding, base_datos, umbral>>

\* One pass through the inner loop body (lines 180-184).
match_compare ==
    /\ MatchFrame
    /\ mpc = "loop"
    /\ k < Len(Items(base_datos))
    /\ LET best == closest([nombre |-> nombre_identificado,
                            distancia |-> distancia_minima],
                           Items(base_datos)[k + 1], embedding, umbral)
       IN  /\ nombre_identificado' = best.nombre
           /\ distancia_minima' = best.distancia
    /\ k' = k + 1
    /\ UNCHANGED <<embedding, base_datos, umbral, mpc>>

\* Line 186: the loops are exhausted.
match_return ==
    /\ MatchFrame
    /\ mpc = "loop"
    /\ k = Len(Items(base_datos))
    /\ mpc' = "done"
    /\ UNCHANGED <<embedding, base_datos, umbral, k, nombre_identificado,
                   distancia_minima>>

\* Sequences of at most n vectors.
EmbLists(n) == UNION {[1..i -> Vectors] : i \in 0..n}

RECURSIVE StoresOf(_, _)
\* Stores of exactly m identities holding at most n embeddings in all.
StoresOf(m, n) ==
    IF m = 0 THEN {<<>>}
    ELSE UNION { { Append(s, [nombre |-> Names[m], emb_list |-> l]) :
                      s \in StoresOf(m - 1, n - Len(l)) } :
                 l \in EmbLists(n) }

Stores == UNION {StoresOf(m, MaxRefs) : m \in 0..MaxIdentities}

Umbrales == {DefaultUmbral, 5}

MatchInit ==
    /\ embedding \in Vectors
    /\ base_datos \in Stores
    /\ umbral \in Umbrales
    /\ k = 0
    /\ nombre_identificado = "Desconocido"
    /\ distancia_minima = Inf
    /\ mpc = "begin"

\* The matching variables while another specification runs.
MatchIdle ==
    /\ embedding = <<0, 0>>
    /\ base_datos = <<>>
    /\ umbral = DefaultUmbral
    /\ k = 0
    /\ nombre_identificado = "Desconocido"
    /\ distancia_minima = Inf
    /\ mpc = "idle"

\* -------------------------------------------------------------- recognize

\* Bounds of the images reconocer is run on: number of detections, and side
\* of the image in pixels.
MaxFaces == 3

MaxSide == 2

\* An exception raised by embedder.embeddings, in place of its answer.
Raise == <<>>

Max(a, b) == IF a >= b THEN a ELSE b

Min(a, b) == IF a <= b THEN a ELSE b

\* Length of a[start:stop] on an axis of n elements, start and stop >= 0.
SliceLen(start, stop, n) == Max(0, Min(stop, n) - Min(start, n))

\* A variant of clip that leaves a negative origin as the detector gave it.
clip_unclamped(box, shape) ==
    [x  |-> box[1],
     y  |-> box[2],
     w  |-> box[3],
     h  |-> box[4],
     x2 |-> Min(shape[2], box[1] + box[3]),
     y2 |-> Min(shape[1], box[2] + box[4])]

\* Lines 142-145: the box is unpacked, its origin clamped to 0 and its far
\* corner, taken from the clamped origin, clamped to the image.
clip(box, shape) ==
    LET cx == Max(0, box[1])
        cy == Max(0, box[2])
    IN  [x  |-> cx,
         y  |-> cy,
         w  |-> box[3],
         h  |-> box[4],
         x2 |-> Min(shape[2], cx + box[3]),
         y2 |-> Min(shape[1], cy + box[4])]

\* Line 146: arr[y:y2, x:x2], an array of the sliced rows and columns and of
\* the channels of arr.
crop(a, c) ==
    [shape |-> <<SliceLen(c.y, c.y2, a.shape[1]),
                 SliceLen(c.x, c.x2, a.shape[2])>> \o Tail(Tail(a.shape))]

\* An array without rows or without columns.
IsEmpty(a) == a.shape[1] = 0 \/ a.shape[2] = 0

RECURSIVE closest_of(_, _, _, _)
\* Lines 176-184: the running best after the first n reference embeddings.
closest_of(items, n, emb, tau) ==
    IF n = 0 THEN [nombre |-> "Desconocido", distancia |-> Inf]
    ELSE closest(closest_of(items, n - 1, emb, tau), items[n], emb, tau)

\* A variant of reconocer_persona whose resize accepts an empty crop.
reconocer_persona_noguard(img_array, answer, db, tau) ==
    IF answer = Raise
    THEN [nombre |-> "Error", distancia |-> Inf, embedded |-> TRUE]
    ELSE LET best == closest_of(Items(db), Len(Items(db)), answer, tau)
         IN  [nombre |-> best.nombre, distancia |-> best.distancia,
              embedded |-> TRUE]

\* Lines 162-190.  cv2.cvtColor and cv2.resize raise on an empty array, and
\* embedder.embeddings may raise: the handler answers ("Error", inf).
\* Otherwise the embedding is matched against the store.  `embedded` tells
\* whether embedder.embeddings was called.
reconocer_persona(img_array, answer, db, tau) ==
    IF IsEmpty(img_array)
    THEN [nombre |-> "Error", distancia |-> Inf, embedded |-> FALSE]
    ELSE IF answer = Raise
    THEN [nombre |-> "Error", distancia |-> Inf, embedded |-> TRUE]
    ELSE LET best == closest_of(Items(db), Len(Items(db)), answer, tau)
         IN  [nombre |-> best.nombre, distancia |-> best.distancia,
              embedded |-> TRUE]

\* Lines 158-160: an exception raised at `where` is answered 500.
reconocer_raise(where) ==
    /\ respuesta' = [success |-> FALSE, resultados |-> <<>>, error |-> where]
    /\ rpc' = "done"

\* Lines 124-134: the payload is decoded into arr, or decoding raises.
reconocer_decode ==
    /\ RecFrame
    /\ rpc = "decode"
    /\ \/ /\ arr' = imagen
          /\ rpc' = "detect"
          /\ UNCHANGED respuesta
       \/ /\ reconocer_raise("decode")
          /\ UNCHANGED arr
    /\ UNCHANGED <<imagen, detector_out, embedder_out, detecciones, idx,
                   x, y, w, h, x2, y2, face_img, resultados, embed_calls>>

\* Lines 137-140: the detector is run on arr, or raises.
reconocer_detect ==
    /\ RecFrame
    /\ rpc = "detect"
    /\ \/ /\ detecciones' = detector_out
          /\ resultados' = <<>>
          /\ rpc' = "loop"
          /\ UNCHANGED respuesta
       \/ /\ reconocer_raise("detect")
          /\ UNCHANGED <<detecciones, resultados>>
    /\ UNCHANGED <<imagen, detector_out, embedder_out, arr, idx,
                   x, y, w, h, x2, y2, face_img, embed_calls>>

\* Lines 141-146: the next detection's box is clipped and cropped.
reconocer_clip ==
    /\ RecFrame
    /\ rpc = "loop"
    /\ idx < Len(detecciones)
    /\ LET c == clip(detecciones[idx + 1].box, arr.shape)
       IN  /\ x' = c.x /\ y' = c.y /\ w' = c.w /\ h' = c.h
           /\ x2' = c.x2 /\ y2' = c.y2
           /\ face_img' = crop(arr, c)
    /\ rpc' = "face"
    /\ UNCHANGED <<imagen, detector_out, embedder_out, arr, detecciones, idx,
                   resultados, embed_calls, respuesta>>

\* A variant of reconocer_face that drops the faces answered "Error".
reconocer_face_skip ==
    /\ RecFrame
    /\ rpc = "face"
    /\ LET r == reconocer_persona(face_img, embedder_out[idx + 1], base_datos,
                                  DefaultUmbral)
       IN  /\ resultados' =
                IF r.nombre = "Error" THEN resultados
                ELSE Append(resultados, [nombre |-> r.nombre,
                                         distancia |-> r.distancia,
                                         bbox |-> <<x, y, w, h>>])
           /\ embed_calls' = IF r.embedded THEN embed_calls \cup {idx + 1}
                             ELSE embed_calls
    /\ idx' = idx + 1
    /\ rpc' = "loop"
    /\ UNCHANGED <<imagen, detector_out, embedder_out, arr, detecciones,
                   x, y, w, h, x2, y2, face_img, respuesta>>

\* A variant of reconocer_face that puts each result in front of the list.
reconocer_face_prepend ==
    /\ RecFrame
    /\ rpc = "face"
    /\ LET r == reconocer_persona(face_img, embedder_out[idx + 1], base_datos,
                                  DefaultUmbral)
       IN  /\ resultados' = <<[nombre |-> r.nombre,
                               distancia |-> r.distancia,
                               bbox |-> <<x, y, w, h>>]>> \o resultados
           /\ embed_calls' = IF r.embedded THEN embed_calls \cup {idx + 1}
                             ELSE embed_calls
    /\ idx' = idx + 1
    /\ rpc' = "loop"
    /\ UNCHANGED <<imagen, detector_out, embedder_out, arr, detecciones,
                   x, y, w, h, x2, y2, face_img, respuesta>>

\* Lines 149-154: the crop is recognized with the default threshold and the
\* result appended.
reconocer_face ==
    /\ RecFrame
    /\ rpc = "face"
    /\ LET r == reconocer_persona(face_img, embedder_out[idx + 1], base_datos,
                                  DefaultUmbral)
       IN  /\ resultados' = Append(resultados, [nombre |-> r.nombre,
                                                distancia |-> r.distancia,
                                                bbox |-> <<x, y, w, h>>])
           /\ embed_calls' = IF r.embedded THEN embed_calls \cup {idx + 1}
                             ELSE embed_calls
    /\ idx' = idx + 1
    /\ rpc' = "loop"
    /\ UNCHANGED <<imagen, detector_out, embedder_out, arr, detecciones,
                   x, y, w, h, x2, y2, face_img, respuesta>>

\* Line 156: the loop is over, the results are answered.
reconocer_respond ==
    /\ RecFrame
    /\ rpc = "loop"
    /\ idx = Len(detecciones)
    /\ respuesta' = [success |-> TRUE, resultados |-> resultados,
                     error |-> ""]
    /\ rpc' = "done"
    /\ UNCHANGED <<imagen, detector_out, embedder_out, arr, detecciones, idx,
                   x, y, w, h, x2, y2, face_img, resultados, embed_calls>>

\* Shapes of decoded images: grayscale, RGB and RGBA.
Shapes(rows, cols) == {<<rows, cols>>, <<rows, cols, 3>>, <<rows, cols, 4>>}

\* The stores reconocer is run with.
SampleStores ==
    { <<>>,
      << [nombre |-> "alice", emb_list |-> << <<0, 0>> >>],
         [nombre |-> "bob", emb_list |-> << <<0, 8>>, <<6, 8>> >>] >> }

\* Boxes on a 2 x 3 image: inside, with a negative origin, and of zero width.
SampleBoxes == { <<0, 0, 2, 2>>, <<-1, 0, 2, 1>>, <<1, 1, 0, 1>> }

\* Answers of the embedder for a crop.
EmbedderAnswers == {Raise, <<0, 0>>, <<3, 4>>}

\* The locals of reconocer before it runs.
RecLocals ==
    /\ arr = [shape |-> <<0, 0>>]
    /\ detecciones = <<>>
    /\ idx = 0
    /\ x = 0 /\ y = 0 /\ w = 0 /\ h = 0 /\ x2 = 0 /\ y2 = 0
    /\ face_img = [shape |-> <<0, 0>>]
    /\ resultados = <<>>
    /\ embed_calls = {}
    /\ respuesta = [success |-> FALSE, resultados |-> <<>>, error |-> "none"]

\* One request on a 2 x 3 image with up to MaxFaces detections.
RecognizeInit ==
    /\ imagen \in {[shape |-> s] : s \in Shapes(2, 3)}
    /\ \E n \in 0..MaxFaces :
          /\ detector_out \in [1..n -> {[box |-> b] : b \in SampleBoxes}]
          /\ embedder_out \in [1..n -> EmbedderAnswers]
    /\ base_datos \in SampleStores
    /\ RecLocals
    /\ rpc = "decode"

\* Boxes with an origin from MaxSide before the image to one past its far
\* edge, and an extent of up to one more than its side.
Boxes ==
    { <<bx, by, bw, bh>> : bx \in -MaxSide..(MaxSide + 1),
                           by \in -MaxSide..(MaxSide + 1),
                           bw \in 0..(MaxSide + 1),
                           bh \in 0..(MaxSide + 1) }

\* One request on an image of up to MaxSide x MaxSide pixels with one
\* detection, whose box is any of Boxes.
ClipInit ==
    /\ \E rows, cols \in 1..MaxSide : imagen = [shape |-> <<rows, cols, 3>>]
    /\ detector_out \in [1..1 -> {[box |-> b] : b \in Boxes}]
    /\ embedder_out = << <<0, 0>> >>
    /\ base_datos \in SampleStores
    /\ RecLocals
    /\ rpc = "decode"

\* The request variables while another specification runs.
RecIdle ==
    /\ imagen = [shape |-> <<0, 0>>]
    /\ detector_out = <<>>
    /\ embedder_out = <<>>
    /\ RecLocals
    /\ rpc = "idle"

\* ---- the specifications ----------------------------------------------------

CacheInit ==
    /\ model_cache = [s \in Slots |-> None]
    /\ cache_lock = Free
    /\ models_loaded = FALSE
    /\ pc = [t \in Threads |-> IF t = BG THEN "load_detector" ELSE "idle"]
    /\ local = [t \in Requests |-> NoLocals]
    /\ outcome = [t \in Requests |-> Pending]
    /\ inits = [s \in Slots |-> 0]
    /\ init_failed = FALSE
    /\ unset_at_call = [t \in Requests |-> FALSE]
    /\ data = None

vars == <<cacheVars, matchVars, recVars, statusVars>>

\* The process from import on: load_models racing with request threads.
Init == CacheInit /\ MatchIdle /\ RecIdle /\ StatusIdle

Next ==
    \/ load_models
    \/ \E t \in Requests : reconocer(t)

Spec == Init /\ [][Next]_vars

\* The request threads of the fair specification: two requests contending
\* with each other and with load_models for cache_lock.
Contenders == {t \in Requests : Cardinality({u \in Requests : u < t}) < 2}

NextFair ==
    \/ load_models
    \/ \E t \in Contenders : reconocer(t)

\* Scheduling: a thread that can take a step of load_models or of a get_*
\* call (the lock is free for it, or it is inside the with block, where every
\* initializer terminates) is eventually run.
Fairness ==
    /\ WF_vars(load_models)
    /\ \A t \in Contenders : \A s \in Slots : WF_vars(ensure(t, s))

\* load_models racing with two request threads under fair scheduling.
FairSpec == Init /\ [][NextFair]_vars /\ Fairness

\* The matching loop of reconocer_persona on one probe and one store.
InitMatch == CacheInit /\ MatchInit /\ RecIdle /\ StatusIdle

NextMatch ==
    \/ match_begin
    \/ match_compare
    \/ match_return

SpecMatch == InitMatch /\ [][NextMatch]_vars

\* The matching variables of a request run, but for the store.
MatchLocalsIdle ==
    /\ embedding = <<0, 0>>
    /\ umbral = DefaultUmbral
    /\ k = 0
    /\ nombre_identificado = "Desconocido"
    /\ distancia_minima = Inf
    /\ mpc = "idle"

\* reconocer from line 124 on, the three models being ready.
InitRecognize == CacheInit /\ MatchLocalsIdle /\ RecognizeInit /\ StatusIdle

NextRecognize ==
    \/ reconocer_decode
    \/ reconocer_detect
    \/ reconocer_clip
    \/ reconocer_face
    \/ reconocer_respond

SpecRecognize == InitRecognize /\ [][NextRecognize]_vars

\* The same steps on one detection with any box of Boxes.
InitClip == CacheInit /\ MatchLocalsIdle /\ ClipInit /\ StatusIdle

SpecClip == InitClip /\ [][NextRecognize]_vars

\* The request thread that runs beside the status requests.
FirstRequest == CHOOSE t \in Requests : \A u \in Requests : t <= u

\* Status requests racing with load_models and one reconocer request.
NextStatus ==
    \/ load_models
    \/ reconocer(FirstRequest)
    \/ status

SpecStatus == Init /\ [][NextStatus]_vars

\* ------------------------------------------------------------------ claims

\* The request of thread t has left the three get_* calls behind.
PastEnsure(t) == pc[t] \in {"infer", "done"}

\* The get_<s> call of thread t ended in an exception of the initializer.
RaisedIn(t, s) == outcome[t] = Failure(s)

\* C1: when no initializer has raised, the initializer of each slot has run
\* at most once, whatever the interleaving of load_models and the get_* calls.
C1_InitAtMostOnce ==
    ~init_failed => \A s \in Slots : inits[s] <= 1

\* C2: request threads that called get_detector while the slot was unset, and
\* got a detector back with no initializer raising, all got the same instance.
C2_SameInstance ==
    \A t1, t2 \in Requests :
        ( /\ ~init_failed
          /\ unset_at_call[t1] /\ unset_at_call[t2]
          /\ local[t1]["detector"] # None
          /\ local[t2]["detector"] # None )
        => local[t1]["detector"] = local[t2]["detector"]

\* C3: a get_<s> call that finds the slot unset runs the initializer; if the
\* initializer raises, the slot is still unset and the lock is free when the
\* call ends, so the next call runs the initializer again; if it succeeds,
\* the slot is ready and holds the instance the call returns.
C3_FailureNotCached ==
    [][ \A t \in Requests : \A s \in Slots :
          (pc[t] = Crit(s) /\ model_cache[s] = None /\ pc'[t] # pc[t])
          => \/ /\ outcome'[t] = Failure(s)
                /\ model_cache'[s] = None
                /\ inits'[s] = inits[s]
                /\ cache_lock' = Free
             \/ /\ outcome'[t] = Pending
                /\ inits'[s] = inits[s] + 1
                /\ model_cache'[s] # None
                /\ local'[t][s] = model_cache'[s] ]_vars

\* C3 witness: the detector's initializer raised inside one request's
\* get_detector, and a later request's get_detector ran it again and built
\* the slot's first instance, before load_models touched the slot.
C3_Witness ==
    \E t1, t2 \in Requests :
        /\ RaisedIn(t1, "detector")
        /\ local[t2]["detector"] = 1
        /\ model_cache["detector"] = 1
        /\ pc[BG] = "load_detector"

\* C4: a request that found the detector unavailable when reconocer was called
\* ends in the NotReady answer, and never gets as far as reading the image.
C4_NotReadyBeforeImage ==
    \A t \in Requests :
        (unset_at_call[t] /\ PastEnsure(t)) => outcome[t] = NotReady

\* Distance from the probe to the i-th reference embedding in iteration order.
Dist(i) == norm(Minus(embedding, Items(base_datos)[i].emb_base))

\* Positions, in iteration order, of the references equal to the probe.
EqualRefs == {i \in 1..Len(Items(base_datos)) :
                 Items(base_datos)[i].emb_base = embedding}

\* C7 as stated: with the default threshold, for every reference equal to the
\* probe the loop returns that reference's identity with distance 0.
C7_ExactMatchOwnIdentity ==
    (mpc = "done" /\ umbral = DefaultUmbral)
    => \A i \in EqualRefs :
          /\ nombre_identificado = Items(base_datos)[i].nombre
          /\ distancia_minima = 0

\* C7 amended: with the default threshold, when some reference equals the
\* probe the loop returns distance 0 and the identity of the first such
\* reference in iteration order.
C7_ExactMatchFirstIdentity ==
    (mpc = "done" /\ umbral = DefaultUmbral /\ EqualRefs # {})
    => /\ distancia_minima = 0
       /\ \E i \in EqualRefs :
             /\ \A j \in EqualRefs : i <= j
             /\ nombre_identificado = Items(base_datos)[i].nombre

\* C7 witness: two identities store the probe's vector and the loop has
\* returned the first of them.
C7_Witness ==
    /\ mpc = "done"
    /\ umbral = DefaultUmbral
    /\ \E i, j \in EqualRefs :
          /\ i < j
          /\ Items(base_datos)[i].nombre # Items(base_datos)[j].nombre
          /\ nombre_identificado = Items(base_datos)[i].nombre
    /\ distancia_minima = 0

\* C8: a probe farther than the threshold from every reference (in particular
\* any probe on the empty store) is answered Desconocido with distance inf.
C8_FarProbeUnknown ==
    (mpc = "done" /\ \A i \in 1..Len(Items(base_datos)) : Dist(i) > umbral)
    => /\ nombre_identificado = "Desconocido"
       /\ distancia_minima = Inf

\* C8 witness: a non-empty store all of whose references are farther than the
\* threshold from the probe, answered Desconocido.
C8_Witness ==
    /\ mpc = "done"
    /\ Len(Items(base_datos)) >= 2
    /\ \A i \in 1..Len(Items(base_datos)) : Dist(i) > umbral
    /\ nombre_identificado = "Desconocido"
    /\ distancia_minima = Inf

\* The request was answered with a result list.
Answered == rpc = "done" /\ respuesta.success

\* Width and height left of the i-th detection's box after clipping.
ClippedW(i) ==
    Min(imagen.shape[2], Max(0, detector_out[i].box[1]) + detector_out[i].box[3])
    - Max(0, detector_out[i].box[1])

ClippedH(i) ==
    Min(imagen.shape[1], Max(0, detector_out[i].box[2]) + detector_out[i].box[4])
    - Max(0, detector_out[i].box[2])

\* The i-th detection clips to zero area.
ClippedEmpty(i) == ClippedW(i) <= 0 \/ ClippedH(i) <= 0

\* Processing the i-th face fails: its crop cannot be resized, or the
\* embedder raises on it.
FaceFails(i) == ClippedEmpty(i) \/ embedder_out[i] = Raise

\* Distance from probe p to the i-th reference of the store.
DistTo(p, i) == norm(Minus(p, Items(base_datos)[i].emb_base))

\* The references closer to p than the default threshold.
Near(p) == {i \in 1..Len(Items(base_datos)) : DistTo(p, i) < DefaultUmbral}

\* The nearest of them, the first in iteration order among the nearest.
Nearest(p) ==
    CHOOSE i \in Near(p) :
        \A j \in Near(p) :
            DistTo(p, i) < DistTo(p, j) \/ (DistTo(p, i) = DistTo(p, j) /\ i <= j)

\* What a face with embedding p resolves to.
Resolved(p) ==
    IF Near(p) = {} THEN [nombre |-> "Desconocido", distancia |-> Inf]
    ELSE [nombre |-> Items(base_datos)[Nearest(p)].nombre,
          distancia |-> DistTo(p, Nearest(p))]

\* The i-th result carries what the i-th detection resolves to.
ResultOf(i) ==
    IF FaceFails(i) THEN [nombre |-> "Error", distancia |-> Inf]
    ELSE Resolved(embedder_out[i])

\* C5: with k detections of which any subset fails, the answer holds k
\* results; the failing faces are ("Error", inf) and every other face is
\* resolved as it is on its own.
C5_FaceFailureIsolated ==
    Answered
    => /\ Len(respuesta.resultados) = Len(detector_out)
       /\ \A i \in 1..Len(detector_out) :
             /\ respuesta.resultados[i].nombre = ResultOf(i).nombre
             /\ respuesta.resultados[i].distancia = ResultOf(i).distancia

\* C5 witness: two detections with non-empty crops, the embedder raising on
\* the first only; the answer marks the first as error and names the second.
C5_Witness ==
    /\ Answered
    /\ Len(detector_out) = 2
    /\ ~ClippedEmpty(1) /\ embedder_out[1] = Raise
    /\ ~FaceFails(2)
    /\ respuesta.resultados[1].nombre = "Error"
    /\ respuesta.resultados[2].nombre = "alice"

\* C6 as stated: a detection that clips to zero area is skipped, so the
\* results are as many as the detections of non-zero clipped area, and no
\* embedding is computed for the others.
C6_ZeroAreaSkipped ==
    Answered
    => /\ Len(respuesta.resultados)
            = Cardinality({i \in 1..Len(detector_out) : ~ClippedEmpty(i)})
       /\ \A i \in 1..Len(detector_out) : ClippedEmpty(i) => i \notin embed_calls

\* C6 amended: a detection that clips to zero area is not skipped; no
\* embedding is computed for it and its result is ("Error", inf), so the
\* results are as many as the detections.
C6_ZeroAreaIsError ==
    Answered
    => /\ Len(respuesta.resultados) = Len(detector_out)
       /\ \A i \in 1..Len(detector_out) :
             ClippedEmpty(i)
             => /\ i \notin embed_calls
                /\ respuesta.resultados[i].nombre = "Error"
                /\ respuesta.resultados[i].distancia = Inf

\* C6 witness: a box of zero width, on which the embedder would answer,
\* followed by a face that is embedded; two results, the first an error.
C6_Witness ==
    /\ Answered
    /\ Len(detector_out) = 2
    /\ ClippedW(1) = 0 /\ embedder_out[1] # Raise
    /\ ~FaceFails(2)
    /\ embed_calls = {2}
    /\ Len(respuesta.resultados) = 2
    /\ respuesta.resultados[1].nombre = "Error"

\* The box being processed lies partly inside and partly outside the image.
PartlyOutside(b, shape) ==
    /\ b[3] > 0 /\ b[4] > 0
    /\ b[1] < shape[2] /\ b[1] + b[3] > 0
    /\ b[2] < shape[1] /\ b[2] + b[4] > 0
    /\ \/ b[1] < 0 \/ b[2] < 0
       \/ b[1] + b[3] > shape[2] \/ b[2] + b[4] > shape[1]

\* C9: for a box partly outside the image the clipped coordinates satisfy
\* 0 <= x <= x2 <= image width and 0 <= y <= y2 <= image height.
C9_ClippedCoordinatesOrdered ==
    (rpc = "face" /\ PartlyOutside(detecciones[idx + 1].box, arr.shape))
    => /\ 0 <= x /\ x <= x2 /\ x2 <= arr.shape[2]
       /\ 0 <= y /\ y <= y2 /\ y2 <= arr.shape[1]

\* C9 witness: a box that starts left of the image and ends below it has
\* been clipped.
C9_Witness ==
    /\ rpc = "face"
    /\ PartlyOutside(detecciones[idx + 1].box, arr.shape)
    /\ detecciones[idx + 1].box[1] < 0
    /\ detecciones[idx + 1].box[2] + detecciones[idx + 1].box[4] > arr.shape[1]
    /\ x = 0 /\ y2 = arr.shape[1]

\* C10: once the detector has answered, the request ends in success with one
\* result per detection, the i-th result carrying the i-th detection's box
\* (origin clamped) and resolution; with no detection the list is empty.
C10_ResultsInDetectionOrder ==
    (rpc = "done" /\ respuesta.error \notin {"decode", "detect"})
    => /\ respuesta.success
       /\ Len(respuesta.resultados) = Len(detector_out)
       /\ \A i \in 1..Len(detector_out) :
             /\ respuesta.resultados[i].bbox =
                   <<Max(0, detector_out[i].box[1]), Max(0, detector_out[i].box[2]),
                     detector_out[i].box[3], detector_out[i].box[4]>>
             /\ respuesta.resultados[i].nombre = ResultOf(i).nombre

\* C10 witness: two detections with different boxes and different
\* resolutions, answered in the detector's order.
C10_Witness ==
    /\ Answered
    /\ Len(detector_out) = 2
    /\ detector_out[1].box # detector_out[2].box
    /\ respuesta.resultados[1].nombre = "alice"
    /\ respuesta.resultados[2].nombre = "Error"
    /\ respuesta.resultados[1].bbox[1] = Max(0, detector_out[1].box[1])
    /\ respuesta.resultados[1].bbox[3] = detector_out[1].box[3]

\* C11: status takes a step in every state, whoever holds cache_lock, and each
\* slot field it evaluates is true exactly when the slot is set in the state
\* it is evaluated in.
C11_StatusNeverBlocks ==
    /\ [](ENABLED status)
    /\ [][ \A i \in 2..Len(Fields) :
              (spc = Fields[i] /\ spc' # spc)
              => report'[Fields[i]] = (model_cache[Fields[i]] # None) ]_vars

\* C11 witness: a status request was answered although cache_lock was held
\* while it evaluated a field, and it reported one slot ready and another not.
C11_Witness ==
    /\ spc = "done"
    /\ held_at_read
    /\ report["detector"]
    /\ ~report["embedder"]

\* A decoded image of three channels.
IsRGB(a) == Len(a.shape) = 3 /\ a.shape[3] = 3

\* C12: the array detector.detect_faces is about to be called on is a
\* 3-channel RGB array, whatever the channels of the uploaded image.
C12_DetectorReceivesRGB ==
    rpc = "detect" => IsRGB(arr)

\* Positions of the references closer to the probe than the threshold.
Below == {i \in 1..Len(Items(base_datos)) : Dist(i) < umbral}

\* Positions of the references at the least distance from the probe.
Closest == {i \in 1..Len(Items(base_datos)) :
               \A j \in 1..Len(Items(base_datos)) : Dist(i) <= Dist(j)}

\* The first position of a non-empty set of positions.
First(S) == CHOOSE i \in S : \A j \in S : i <= j

\* C13: when several references are at the same least distance, below the
\* threshold, the loop returns the identity of the first of them in iteration
\* order; and a candidate at a distance equal to the running best never
\* replaces it.
C13_FirstOfTiesWins ==
    /\ []( ( /\ mpc = "done"
             /\ Cardinality(Closest) >= 2
             /\ Closest \subseteq Below )
           => nombre_identificado = Items(base_datos)[First(Closest)].nombre )
    /\ [][ (mpc = "loop" /\ k' = k + 1 /\ Dist(k + 1) = distancia_minima)
           => /\ nombre_identificado' = nombre_identificado
              /\ distancia_minima' = distancia_minima ]_vars

\* C13 witness: two identities each hold a reference at the same non-zero
\* least distance below the threshold, and the earlier identity is returned.
C13_Witness ==
    /\ mpc = "done"
    /\ Closest \subseteq Below
    /\ \E i, j \in Closest :
          /\ i < j
          /\ Dist(i) > 0
          /\ Items(base_datos)[i].nombre # Items(base_datos)[j].nombre
          /\ nombre_identificado = Items(base_datos)[i].nombre
          /\ distancia_minima = Dist(i)

\* C16: the loop returns (Desconocido, inf) exactly when no reference is
\* closer than the threshold; otherwise it returns the least distance over
\* all references, which is below the threshold, and an identity that owns a
\* reference at that distance.
C16_NearestBelowThreshold ==
    mpc = "done"
    => \/ /\ Below = {}
          /\ nombre_identificado = "Desconocido"
          /\ distancia_minima = Inf
       \/ /\ Below # {}
          /\ distancia_minima # Inf
          /\ distancia_minima < umbral
          /\ \A i \in 1..Len(Items(base_datos)) : distancia_minima <= Dist(i)
          /\ \E i \in 1..Len(Items(base_datos)) :
                /\ Dist(i) = distancia_minima
                /\ Items(base_datos)[i].nombre = nombre_identificado

\* C16 witness: the nearest reference is at exactly the threshold, farther
\* ones follow, and the answer is Desconocido.
C16_Witness ==
    /\ mpc = "done"
    /\ Len(Items(base_datos)) >= 2
    /\ \E i \in Closest : Dist(i) = umbral
    /\ nombre_identificado = "Desconocido"
    /\ distancia_minima = Inf

\* C14: a slot that is set keeps the instance it holds: no step of
\* load_models or of a get_* call replaces it or unsets it.
C14_ReadySlotNeverReplaced ==
    [][ \A s \in Slots :
          model_cache[s] # None => model_cache'[s] = model_cache[s] ]_vars

\* C15: a request thread holds cache_lock only inside the with block of a
\* get_* call; while it checks the models and runs detection, embedding and
\* matching it does not hold it.
C15_LockOnlyInsideEnsure ==
    \A t \in Requests :
        /\ cache_lock = t => \E s \in Slots : pc[t] = Crit(s)
        /\ pc[t] \in {"check", "infer"} => cache_lock # t

\* C15 witness: one request runs its inference while another thread is
\* inside a with block, holding the lock.
C15_Witness ==
    \E t \in Requests :
        /\ pc[t] = "infer"
        /\ cache_lock \in Threads \ {t}

\* C19: whenever models_loaded is true the three slots are set; the flag
\* changes only in load_models' step after its three stores, to true, and
\* never back.
C19_FlagImpliesAllReady ==
    /\ [](models_loaded => \A s \in Slots : model_cache[s] # None)
    /\ [][ models_loaded' # models_loaded
           => /\ pc[BG] = "load_flag"
              /\ models_loaded'
              /\ \A s \in Slots : model_cache'[s] # None ]_vars

\* C19 witness: load_models has finished with the flag set, after a request
\* thread had built one of the instances itself.
C19_Witness ==
    /\ models_loaded
    /\ pc[BG] = "load_done"
    /\ \E s \in Slots : inits[s] = 2
    /\ \A s \in Slots : model_cache[s] # None

\* The indices below n that the half-open range [from, from + len) covers.
Inside(from, len, n) == {i \in 0..(n - 1) : from <= i /\ i < from + len}

\* C17: the columns and rows cropped for a detection are those of the
\* detector's box that lie inside the image, for every box with w, h >= 0,
\* a negative origin included.
C17_CropIsIntersection ==
    rpc = "face"
    => /\ x..(x2 - 1) = Inside(detecciones[idx + 1].box[1],
                               detecciones[idx + 1].box[3], arr.shape[2])
       /\ y..(y2 - 1) = Inside(detecciones[idx + 1].box[2],
                               detecciones[idx + 1].box[4], arr.shape[1])

\* C18: the bbox of every result lies inside the image: x, y, width and
\* height are non-negative, x + width <= image width and y + height <= image
\* height.
C18_ReportedBoxInsideImage ==
    Answered
    => \A i \in 1..Len(respuesta.resultados) :
          LET b == respuesta.resultados[i].bbox
          IN  /\ b[1] >= 0 /\ b[2] >= 0 /\ b[3] >= 0 /\ b[4] >= 0
              /\ b[1] + b[3] <= imagen.shape[2]
              /\ b[2] + b[4] <= imagen.shape[1]

\* Positions of load_models inside one of its with blocks.
LoadLocked == {"load_" \o s \o "_locked" : s \in Slots}

\* C20: cache_lock is held only by a thread inside a with block, so it is
\* released on every exit, by return or by exception; under fair scheduling
\* every get_* call that was entered returns to reconocer or fails, and
\* load_models runs to its end.
C20_EnsureReturnsOrFails ==
    /\ [](/\ cache_lock = BG => pc[BG] \in LoadLocked
          /\ \A t \in Requests :
                cache_lock = t => \E s \in Slots : pc[t] = Crit(s))
    /\ \A t \in Contenders : \A s \in Slots :
          (pc[t] = Wait(s)) ~> (pc[t] = After(s) \/ RaisedIn(t, s))
    /\ <>(pc[BG] = "load_done")

\* C20 witness: an initializer raised inside one request's get_* call and
\* load_models ended by exception, after which another request obtained its
\* three models and was answered; nobody holds the lock.
C20_Witness ==
    /\ cache_lock = Free
    /\ pc[BG] = "load_done" /\ ~models_loaded
    /\ \E t1, t2 \in Requests :
          /\ \E s \in Slots : RaisedIn(t1, s)
          /\ outcome[t2] = Success

====
